---- MODULE Spec2Model ----
(***************************************************************************)
(* prefect-openai: the CompletionModel / ImageModel blocks' submit_prompt, *)
(* OpenAICredentials.get_client and the interpret_exception decorator.     *)
(*                                                                         *)
(* Text is a sequence of tokens (a token is one character or one literal   *)
(* chunk of a format string), so that concatenation, strip and str() are   *)
(* computed and not assumed.                                               *)
(***************************************************************************)
EXTENDS Integers, Sequences, FiniteSets, TLC

(***************************************************************************)
(* Bounds of the model.                                                    *)
(***************************************************************************)
\* longest positional argument list of an exception raised by the callable
MaxArgs == 3
\* most choices in one response of the generation API
MaxChoices == 2
\* most choices in a response to a direct caller of submit_prompt
MaxCallerChoices == 1

(***************************************************************************)
(* Text                                                                    *)
(***************************************************************************)
\* Python's None among text values
NoneV == <<"<None>">>

Whitespace == {" ", "\n", "\t"}

RECURSIVE lstrip(_)
lstrip(s) ==
    IF s # <<>> /\ Head(s) \in Whitespace THEN lstrip(Tail(s)) ELSE s

RECURSIVE rstrip(_)
rstrip(s) ==
    IF s # <<>> /\ s[Len(s)] \in Whitespace
    THEN rstrip(SubSeq(s, 1, Len(s) - 1))
    ELSE s

\* str.strip()
strip(s) == rstrip(lstrip(s))

\* repr() of a text value
Repr(s) == IF s = NoneV THEN <<"None">> ELSE <<"'">> \o s \o <<"'">>

RECURSIVE JoinRepr(_)
JoinRepr(xs) ==
    IF xs = <<>> THEN <<>>
    ELSE IF Len(xs) = 1 THEN Repr(xs[1])
    ELSE Repr(xs[1]) \o <<", ">> \o JoinRepr(Tail(xs))

\* BaseException.__str__: "" for no args, str(args[0]) for one, else the
\* repr of the args tuple
StrOfArgs(args) ==
    IF Len(args) = 0 THEN <<>>
    ELSE IF Len(args) = 1
         THEN (IF args[1] = NoneV THEN <<"None">> ELSE args[1])
         ELSE <<"(">> \o JoinRepr(args) \o <<")">>

\* the messages and values the wrapped callable puts into its exceptions
Msgs == { <<"a">>, <<" ", "b">> }

\* the sequences over S of length lo..hi
SeqsBetween(S, lo, hi) ==
    UNION { [1..n -> S] : n \in lo..hi }


(***************************************************************************)
(* Exceptions                                                              *)
(*                                                                         *)
(* The exception classes the wrapped callable may raise are inputs of the  *)
(* decorator.  A class is described by what the rebuild of line 195 reads: *)
(* whether `except Exception` catches it, what inspect.signature says of   *)
(* it, how its constructor binds positional and keyword-only arguments,    *)
(* what it passes on to BaseException.__init__ (which sets .args) and      *)
(* whether it keeps its keyword-only arguments as attributes of the same   *)
(* name.                                                                   *)
(*   ZeroDivisionError  built-in: no signature, any positional arguments   *)
(*   ImportError        built-in: no signature, any positional arguments   *)
(*                      and the keyword-only argument name, kept as .name  *)
(*   KeyboardInterrupt  built-in, not a subclass of Exception              *)
(*   AppError           def __init__(self, msg, *details, code=None):      *)
(*                          super().__init__(msg, *details)                *)
(*                          self.code = code                               *)
(*   ParseError         def __init__(self, msg, doc, pos):                 *)
(*                          super().__init__(msg)    (json.JSONDecodeError)*)
(*   QuietError         def __init__(self, msg, *, hint):                  *)
(*                          super().__init__(msg); self._hint = hint       *)
(*   OddError           class OddError(Exception): __signature__ = 5       *)
(*                      inspect.signature raises TypeError (unexpected     *)
(*                      object in __signature__ attribute)                 *)
(***************************************************************************)
ExcTypeNames ==
    {"ZeroDivisionError", "ImportError", "KeyboardInterrupt", "AppError", "ParseError",
     "QuietError", "OddError"}

NoKw == [k \in {} |-> NoneV]

ExcType(name) ==
    CASE name = "ZeroDivisionError" ->
           [isException |-> TRUE, signature |-> "ValueError", minPos |-> 0,
            varargs |-> TRUE, maxPos |-> 0, kwonly |-> {}, required |-> {},
            init |-> "all", stores |-> FALSE]
      [] name = "ImportError" ->
           [isException |-> TRUE, signature |-> "ValueError", minPos |-> 0,
            varargs |-> TRUE, maxPos |-> 0, kwonly |-> {"name"}, required |-> {},
            init |-> "all", stores |-> TRUE]
      [] name = "KeyboardInterrupt" ->
           [isException |-> FALSE, signature |-> "ValueError", minPos |-> 0,
            varargs |-> TRUE, maxPos |-> 0, kwonly |-> {}, required |-> {},
            init |-> "all", stores |-> FALSE]
      [] name = "AppError" ->
           [isException |-> TRUE, signature |-> "ok", minPos |-> 1,
            varargs |-> TRUE, maxPos |-> 1, kwonly |-> {"code"}, required |-> {},
            init |-> "all", stores |-> TRUE]
      [] name = "ParseError" ->
           [isException |-> TRUE, signature |-> "ok", minPos |-> 3,
            varargs |-> FALSE, maxPos |-> 3, kwonly |-> {}, required |-> {},
            init |-> "first", stores |-> FALSE]
      [] name = "OddError" ->
           [isException |-> TRUE, signature |-> "TypeError", minPos |-> 0,
            varargs |-> TRUE, maxPos |-> 0, kwonly |-> {}, required |-> {},
            init |-> "all", stores |-> FALSE]
      [] name = "QuietError" ->
           [isException |-> TRUE, signature |-> "ok", minPos |-> 1,
            varargs |-> FALSE, maxPos |-> 1, kwonly |-> {"hint"}, required |-> {"hint"},
            init |-> "first", stores |-> FALSE]

NoExc ==
    [id |-> "none", type |-> "none", args |-> <<>>, attrs |-> NoKw,
     cause |-> "none", context |-> "none", tb |-> "none"]

\* Whether calling T with positional arguments pos and keyword arguments kw
\* binds to T's constructor.
Binds(T, pos, kw) ==
    LET d == ExcType(T) IN
    /\ Len(pos) >= d.minPos
    /\ d.varargs \/ Len(pos) <= d.maxPos
    /\ DOMAIN kw \subseteq d.kwonly
    /\ d.required \subseteq DOMAIN kw

\* The instance made by a call of T that binds.
Instance(T, pos, kw, id) ==
    LET d == ExcType(T) IN
    [id |-> id, type |-> T,
     args |-> IF d.init = "all" THEN pos ELSE <<pos[1]>>,
     attrs |-> IF d.stores
               THEN [k \in d.kwonly |-> IF k \in DOMAIN kw THEN kw[k] ELSE NoneV]
               ELSE NoKw,
     cause |-> "none", context |-> "none", tb |-> "none"]

\* An exception of a library type raised while `handled` is being handled:
\* Python links it to `handled` as its implicit context, never as its cause.
Failure(id, type, msg, handled) ==
    [id |-> id, type |-> type, args |-> <<msg>>, attrs |-> NoKw,
     cause |-> "none", context |-> handled, tb |-> "tb_handler"]

\* Every exception the wrapped callable can raise: any class above, built with
\* any arguments its constructor accepts.
KwChoices(T) ==
    LET d == ExcType(T) IN
    UNION { [ks -> Msgs \cup {NoneV}] : ks \in { s \in SUBSET d.kwonly : d.required \subseteq s } }

Raisable ==
    { [Instance(T, pos, kw, "E") EXCEPT !.tb = "tb_fn"] :
        <<T, pos, kw>> \in
          { c \in UNION { { <<T, pos, kw>> : pos \in SeqsBetween(Msgs, 0, MaxArgs),
                                           kw \in KwChoices(T) } : T \in ExcTypeNames } :
            Binds(c[1], c[2], c[3]) } }

(***************************************************************************)
(* _raise_interpreted_exc, lines 172-184: what is gathered from exc        *)
(***************************************************************************)
\* getattr(exc, name, None)
getattr(exc, name) ==
    IF name \in DOMAIN exc.attrs THEN exc.attrs[name] ELSE NoneV

\* a rebuild that forgets to drop the message: args = exc.args
GatherArgs_keeps_message(exc) == exc.args

\* args = exc.args[1:]
GatherArgs(exc) ==
    IF Len(exc.args) = 0 THEN <<>> ELSE Tail(exc.args)

\* Whether the try block of lines 175-181 raises an error that `except
\* ValueError` (line 182) does not catch
IntrospectionEscapes(exc) ==
    ExcType(exc.type).signature \notin {"ok", "ValueError"}

\* kwargs: one entry per keyword-only parameter of the signature; {} when
\* inspect.signature raises ValueError
GatherKwargs(exc) ==
    LET d == ExcType(exc.type) IN
    IF d.signature = "ok"
    THEN [k \in d.kwonly |-> getattr(exc, k)]
    ELSE NoKw

(***************************************************************************)
(* _raise_interpreted_exc, lines 188-195: prompt, message and rebuild      *)
(***************************************************************************)
\* prompt = f"Summarize: ```{str(exc)}```."
\* (the token "<fence>" stands for the three backquotes of the template)
Prompt(exc) ==
    <<"Summarize: ", "<fence>">> \o StrOfArgs(exc.args) \o <<"<fence>", ".">>

\* new_exc_msg = f"{exc}\nOpenAI: {interpretation}"
NewExcMsg(exc, interpretation) ==
    StrOfArgs(exc.args) \o <<"\n", "OpenAI: ">> \o interpretation

\* The constructor call of line 195: exc_type applied to new_exc_msg, then
\* args, then kwargs
CtorCall(exc, msg, args, kwargs) ==
    [type |-> exc.type, pos |-> <<msg>> \o args, kw |-> kwargs]

NoCall == [type |-> "none", pos |-> <<>>, kw |-> NoKw]

\* raise exc_type(...).with_traceback(exc_traceback) from exc.  A call that does
\* not bind raises TypeError before `from exc` applies.
RaiseRebuilt(exc, call, tb) ==
    IF Binds(call.type, call.pos, call.kw)
    THEN [Instance(call.type, call.pos, call.kw, "R")
            EXCEPT !.tb = tb, !.cause = exc.id, !.context = exc.id]
    ELSE Failure("F", "TypeError", <<"__init__() arguments do not match">>, exc.id)


(***************************************************************************)
(* Stored configuration: credentials blocks and model blocks               *)
(***************************************************************************)
CredentialNames == {"creds-a", "creds-b"}

\* OpenAICredentials: api_key and the optional organization
Credentials(name) ==
    IF name = "creds-a"
    THEN [api_key |-> "sk-a", organization |-> "org-a"]
    ELSE [api_key |-> "sk-b", organization |-> "None"]

CompletionFields == {"model", "temperature", "max_tokens", "suffix", "echo", "timeout"}
ImageFields == {"size", "n", "response_format"}

\* the names under which a CompletionModel is stored, and all stored names
CompletionBlockNames == {"curie", "davinci"}
BlockNames == CompletionBlockNames \cup {"image"}

\* "curie" holds the class defaults of CompletionModel, "image" those of ImageModel
Block(name) ==
    CASE name = "curie" ->
           [cls |-> "CompletionModel", openai_credentials |-> "creds-a",
            config |-> [model |-> "text-curie-001", temperature |-> "0.5",
                        max_tokens |-> "16", suffix |-> "None", echo |-> "False",
                        timeout |-> "None"]]
      [] name = "davinci" ->
           [cls |-> "CompletionModel", openai_credentials |-> "creds-b",
            config |-> [model |-> "text-davinci-003", temperature |-> "0.9",
                        max_tokens |-> "64", suffix |-> "None", echo |-> "True",
                        timeout |-> "30"]]
      [] name = "image" ->
           [cls |-> "ImageModel", openai_credentials |-> "creds-b",
            config |-> [size |-> "256x256", n |-> "1", response_format |-> "url"]]

NoBlock == [cls |-> "none", openai_credentials |-> "none", config |-> [k \in {} |-> ""]]

(***************************************************************************)
(* submit_prompt                                                           *)
(***************************************************************************)
\* input_kwargs = dict(model=self.model, ...) / dict(size=self.size, ...)
input_kwargs(block) ==
    IF block.cls = "CompletionModel"
    THEN [k \in CompletionFields |-> block.config[k]]
    ELSE [k \in ImageFields |-> block.config[k]]

\* a merge in which the block's value wins over the caller's
update_defaults_win(d, o) ==
    [k \in DOMAIN d \cup DOMAIN o |-> IF k \in DOMAIN d THEN d[k] ELSE o[k]]

\* dict.update: input_kwargs.update(acreate_kwargs)
update(d, o) ==
    [k \in DOMAIN d \cup DOMAIN o |-> IF k \in DOMAIN o THEN o[k] ELSE d[k]]

\* the keyword overrides a caller may pass
OverrideKeys == {"max_tokens", "user"}
OverrideVals == {"50"}
Overrides == UNION { [ks -> OverrideVals] : ks \in SUBSET OverrideKeys }
NoOverrides == [k \in {} |-> ""]

\* client.Completion.acreate(prompt=prompt, **input_kwargs) or client.Image.acreate:
\* client is the openai module, and no key is passed, so the request carries the
\* module's api_key and organization as they are when the call is made
acreate(block, prompt, kwargs, api_key, organization) ==
    [api |-> IF block.cls = "CompletionModel" THEN "Completion" ELSE "Image",
     prompt |-> prompt, kwargs |-> kwargs,
     api_key |-> api_key, organization |-> organization]

NoRequest ==
    [api |-> "none", prompt |-> <<>>, kwargs |-> NoOverrides,
     api_key |-> "none", organization |-> "none"]

\* What the generation API answers: an error, or a response with its choices'
\* texts and with or without a usage record.
Texts == { <<" ", "s", "\n">>, <<"s", " ", "s">>, NoneV }

OutcomesUpTo(n) ==
    {[kind |-> "error", choices |-> <<>>, usage |-> FALSE]}
    \cup {[kind |-> "ok", choices |-> c, usage |-> u] :
             c \in SeqsBetween(Texts, 0, n), u \in BOOLEAN}

ApiOutcomes == OutcomesUpTo(MaxChoices)
CallerOutcomes == OutcomesUpTo(MaxCallerChoices)

NoResponse == [kind |-> "none", choices |-> <<>>, usage |-> FALSE]

\* the error acreate raises, as it reaches submit_prompt's caller
ApiError(handled) == Failure("api", "APIError", <<"request failed">>, handled)

\* Whether lines 157-158 evaluate: creation.usage["total_tokens"] and
\* len(creation.choices); ImageModel reads neither
ReadsUsage(block, o) == block.cls = "CompletionModel" => o.usage

\* submit_prompt from the awaited acreate on (lines 156-163, image 94-99):
\* what is raised, how many lines are logged and what is returned.
\* `handled` is the exception being handled around the call, if any.
AfterAcreate(block, o, handled) ==
    IF o.kind = "error"
    THEN [raised |-> ApiError(handled), logs |-> 0, returned |-> NoResponse]
    ELSE IF ~ReadsUsage(block, o)
    THEN [raised |-> Failure("F", "AttributeError", <<"usage">>, handled),
          logs |-> 0, returned |-> NoResponse]
    ELSE [raised |-> NoExc, logs |-> 1, returned |-> o]

(***************************************************************************)
(* _raise_interpreted_exc from the response on (lines 190-195)             *)
(***************************************************************************)
\* response.choices[0].text.strip(), the message, the rebuild and the raise:
\* the exception that leaves, and the constructor call made (if any)
Interpret(exc, args, kwargs, tb, response) ==
    IF Len(response.choices) = 0
    THEN [raised |-> Failure("F", "IndexError", <<"list index out of range">>, exc.id),
          call |-> NoCall]
    ELSE IF response.choices[1] = NoneV
    THEN [raised |-> Failure("F", "AttributeError", <<"strip">>, exc.id),
          call |-> NoCall]
    ELSE LET interpretation == strip(response.choices[1])
             call == CtorCall(exc, NewExcMsg(exc, interpretation), args, kwargs)
         IN  [raised |-> RaiseRebuilt(exc, call, tb), call |-> call]


(***************************************************************************)
(* State                                                                   *)
(***************************************************************************)
VARIABLES
    \* the openai module's attributes, written by get_client
    openai_api_key, openai_organization,
    \* interpret_exception(block_name)(fn) and one call of the wrapper it returns
    wpc,               \* where the decoration / the call stands
    fn,                \* what was decorated
    fn_outcome,        \* what the wrapped callable did in this call
    block_name,        \* interpret_exception's argument
    wrapper,           \* "sync_wrapper", "async_wrapper" or "none"
    exc,               \* the exception caught by the wrapper
    args, kwargs,      \* what lines 174-184 gathered from it
    exc_traceback,     \* line 173
    completion_model,  \* the loaded block
    request,           \* the interpretation request sent
    response,          \* what the generation API answered
    ctor,              \* the constructor call of line 195
    outcome,           \* how the decoration or the call ended
    events,            \* what the call did, in order
    nlog,              \* info lines logged during the call
    \* direct callers of submit_prompt
    cpc, ccall, creq, cnreq, clog, cout

wvars == <<wpc, fn, fn_outcome, block_name, wrapper, exc, args, kwargs, exc_traceback,
           completion_model, request, response, ctor, outcome, events, nlog>>
cvars == <<cpc, ccall, creq, cnreq, clog, cout>>
gvars == <<openai_api_key, openai_organization>>
vars == <<gvars, wvars, cvars>>

Callers == {"c1", "c2"}

FnKinds == {"function", "coroutine function", "Flow", "Task"}

\* the names interpret_exception is given: stored CompletionModel blocks, or not
WrapperBlockNames == CompletionBlockNames \cup {"missing"}

\* what the wrapped callable may return
ReturnValues == Msgs \cup {NoneV}

NoOutcome == [kind |-> "none", value |-> NoneV, exc |-> NoExc, response |-> NoResponse]
Returned(v) == [kind |-> "return", value |-> v, exc |-> NoExc, response |-> NoResponse]
Raised(e) == [kind |-> "raise", value |-> NoneV, exc |-> e, response |-> NoResponse]
ReturnedResponse(o) == [kind |-> "return", value |-> NoneV, exc |-> NoExc, response |-> o]

NoCallerCall == [block |-> "none", prompt |-> <<>>, overrides |-> NoOverrides]

Init ==
    /\ openai_api_key = "none"
    /\ openai_organization = "none"
    /\ wpc = "undecorated"
    /\ fn = "none"
    /\ fn_outcome = NoOutcome
    /\ response = NoResponse
    /\ block_name = "none"
    /\ wrapper = "none"
    /\ exc = NoExc
    /\ args = <<>>
    /\ kwargs = NoKw
    /\ exc_traceback = "none"
    /\ completion_model = NoBlock
    /\ request = NoRequest
    /\ ctor = NoCall
    /\ outcome = NoOutcome
    /\ events = <<>>
    /\ nlog = 0
    /\ cpc = [c \in Callers |-> "idle"]
    /\ ccall = [c \in Callers |-> NoCallerCall]
    /\ creq = [c \in Callers |-> NoRequest]
    /\ cnreq = [c \in Callers |-> 0]
    /\ clog = [c \in Callers |-> 0]
    /\ cout = [c \in Callers |-> NoOutcome]

(***************************************************************************)
(* interpret_exception: the decorator                                      *)
(***************************************************************************)
\* a guard that forgets Task: isinstance(fn, Flow)
IsFlowOrTask_flow_only(f) == f = "Flow"

\* isinstance(fn, (Flow, Task))
IsFlowOrTask(f) == f \in {"Flow", "Task"}

\* prefect's is_async_fn
is_async_fn(f) == f = "coroutine function"

\* decorator(fn), lines 226-258
decorator(f, bn) ==
    /\ wpc = "undecorated"
    /\ fn' = f
    /\ block_name' = bn
    /\ IF IsFlowOrTask(f)
       THEN /\ wpc' = "usage_error"
            /\ wrapper' = "none"
            /\ outcome' = Raised(Failure("V", "ValueError",
                             <<"interpret_exception should be nested under the flow / task decorator">>,
                             "none"))
       ELSE /\ wpc' = "ready"
            /\ wrapper' = IF is_async_fn(f) THEN "async_wrapper" ELSE "sync_wrapper"
            /\ outcome' = NoOutcome
    /\ UNCHANGED <<fn_outcome, exc, args, kwargs, exc_traceback, completion_model,
                   request, response, ctor, events, nlog, gvars, cvars>>

(***************************************************************************)
(* sync_wrapper / async_wrapper and _raise_interpreted_exc                 *)
(***************************************************************************)
\* a wrapper that loads the block before it calls fn
call_wrapper_loads_first ==
    /\ wpc = "ready"
    /\ wpc' = "running"
    /\ events' = <<"load", "fn called">>
    /\ UNCHANGED <<fn, fn_outcome, block_name, wrapper, exc, args, kwargs, exc_traceback,
                   completion_model, request, response, ctor, outcome, nlog, gvars,
                   cvars>>

\* the wrapper is called and calls fn (lines 242, 253)
call_wrapper ==
    /\ wpc = "ready"
    /\ wpc' = "running"
    /\ events' = <<"fn called">>
    /\ UNCHANGED <<fn, fn_outcome, block_name, wrapper, exc, args, kwargs, exc_traceback,
                   completion_model, request, response, ctor, outcome, nlog, gvars,
                   cvars>>

\* fn returns: the wrapper returns its value
fn_returns(v) ==
    /\ wpc = "running"
    /\ wpc' = "done"
    /\ fn_outcome' = Returned(v)
    /\ outcome' = Returned(v)
    /\ events' = Append(events, "fn returned")
    /\ UNCHANGED <<fn, block_name, wrapper, exc, args, kwargs, exc_traceback,
                   completion_model, request, response, ctor, nlog, gvars, cvars>>

\* `except Exception as exc`
Catches(e) == ExcType(e.type).isException

\* fn raises e: caught by `except Exception` or not; a caught exception enters
\* _raise_interpreted_exc, which gathers its parts (lines 172-184)
fn_raises(e) ==
    /\ wpc = "running"
    /\ fn_outcome' = Raised(e)
    /\ events' = Append(events, "fn raised")
    /\ IF Catches(e)
       THEN /\ exc' = e
            /\ exc_traceback' = e.tb
            /\ args' = GatherArgs(e)
            /\ IF IntrospectionEscapes(e)
               THEN /\ wpc' = "done"
                    /\ outcome' = Raised(Failure("F", ExcType(e.type).signature,
                                     <<"unexpected object in __signature__ attribute">>,
                                     e.id))
                    /\ UNCHANGED kwargs
               ELSE /\ wpc' = "caught"
                    /\ kwargs' = GatherKwargs(e)
                    /\ UNCHANGED outcome
       ELSE /\ wpc' = "done"
            /\ outcome' = Raised(e)
            /\ UNCHANGED <<exc, exc_traceback, args, kwargs>>
    /\ UNCHANGED <<fn, block_name, wrapper, completion_model, request, response, ctor,
                   nlog, gvars, cvars>>

\* a handler that falls back to the original exception when the load fails
load_reraises_original ==
    /\ wpc = "caught"
    /\ events' = Append(events, "load")
    /\ IF block_name \in CompletionBlockNames
       THEN /\ wpc' = "loaded"
            /\ completion_model' = Block(block_name)
            /\ UNCHANGED outcome
       ELSE /\ wpc' = "done"
            /\ outcome' = Raised(exc)
            /\ UNCHANGED completion_model
    /\ UNCHANGED <<fn, fn_outcome, block_name, wrapper, exc, args, kwargs, exc_traceback,
                   request, response, ctor, nlog, gvars, cvars>>

\* completion_model = await CompletionModel.load(block_name), line 187
load ==
    /\ wpc = "caught"
    /\ events' = Append(events, "load")
    /\ IF block_name \in CompletionBlockNames
       THEN /\ wpc' = "loaded"
            /\ completion_model' = Block(block_name)
            /\ UNCHANGED outcome
       ELSE /\ wpc' = "done"
            /\ outcome' = Raised(Failure("F", "ValueError",
                             <<"Unable to find block document">>, exc.id))
            /\ UNCHANGED completion_model
    /\ UNCHANGED <<fn, fn_outcome, block_name, wrapper, exc, args, kwargs, exc_traceback,
                   request, response, ctor, nlog, gvars, cvars>>

\* completion_model.submit_prompt(prompt) up to the awaited request
\* (lines 188-189, then 144-156)
submit_interpretation ==
    /\ wpc = "loaded"
    /\ LET creds == Credentials(completion_model.openai_credentials) IN
       /\ openai_api_key' = creds.api_key
       /\ openai_organization' = creds.organization
       /\ request' = acreate(completion_model, Prompt(exc),
                             update(input_kwargs(completion_model), NoOverrides),
                             creds.api_key, creds.organization)
    /\ wpc' = "waiting"
    /\ events' = Append(events, "request")
    /\ UNCHANGED <<fn, fn_outcome, block_name, wrapper, exc, args, kwargs, exc_traceback,
                   completion_model, response, ctor, outcome, nlog, cvars>>

\* the request ends with o: the rest of submit_prompt (157-163), then lines 190-195
interpretation_ends(o) ==
    /\ wpc = "waiting"
    /\ response' = o
    /\ LET sub == AfterAcreate(completion_model, o, exc.id) IN
       /\ nlog' = nlog + sub.logs
       /\ IF sub.raised # NoExc
          THEN /\ outcome' = Raised(sub.raised)
               /\ UNCHANGED ctor
          ELSE LET r == Interpret(exc, args, kwargs, exc_traceback, sub.returned) IN
               /\ outcome' = Raised(r.raised)
               /\ ctor' = r.call
    /\ wpc' = "done"
    /\ events' = Append(events, "raise")
    /\ UNCHANGED <<fn, fn_outcome, block_name, wrapper, exc, args, kwargs, exc_traceback,
                   completion_model, request, gvars, cvars>>

\* the wrapper is called again: nothing of the last call is kept
next_call ==
    /\ wpc = "done"
    /\ wpc' = "ready"
    /\ exc' = NoExc
    /\ args' = <<>>
    /\ kwargs' = NoKw
    /\ exc_traceback' = "none"
    /\ completion_model' = NoBlock
    /\ request' = NoRequest
    /\ response' = NoResponse
    /\ fn_outcome' = NoOutcome
    /\ ctor' = NoCall
    /\ outcome' = NoOutcome
    /\ events' = <<>>
    /\ nlog' = 0
    /\ UNCHANGED <<fn, block_name, wrapper, gvars, cvars>>

Next ==
    \/ \E f \in FnKinds, bn \in WrapperBlockNames : decorator(f, bn)
    \/ call_wrapper
    \/ \E v \in ReturnValues : fn_returns(v)
    \/ \E e \in Raisable : fn_raises(e)
    \/ load
    \/ submit_interpretation
    \/ \E o \in ApiOutcomes : interpretation_ends(o)
    \/ next_call

Spec == Init /\ [][Next]_vars


(***************************************************************************)
(* Direct callers of submit_prompt, each in a thread of its own            *)
(*                                                                         *)
(* get_client assigns the two module attributes one after the other, and   *)
(* the request reads them when acreate is called: callers in different     *)
(* threads interleave between these steps.                                 *)
(***************************************************************************)
CallerPrompts == { <<"h", "i">> }

\* model.submit_prompt(prompt, **acreate_kwargs) is called
submit_prompt(c, bn, p, ov) ==
    /\ cpc[c] = "idle"
    /\ ccall' = [ccall EXCEPT ![c] = [block |-> bn, prompt |-> p, overrides |-> ov]]
    /\ cpc' = [cpc EXCEPT ![c] = "called"]
    /\ UNCHANGED <<creq, cnreq, clog, cout, gvars, wvars>>

\* get_client, line 64: openai.api_key = self.api_key.get_secret_value()
get_client_api_key(c) ==
    /\ cpc[c] = "called"
    /\ openai_api_key' = Credentials(Block(ccall[c].block).openai_credentials).api_key
    /\ cpc' = [cpc EXCEPT ![c] = "key set"]
    /\ UNCHANGED <<openai_organization, ccall, creq, cnreq, clog, cout, wvars>>

\* get_client, line 65: openai.organization = self.organization
get_client_organization(c) ==
    /\ cpc[c] = "key set"
    /\ openai_organization' =
          Credentials(Block(ccall[c].block).openai_credentials).organization
    /\ cpc' = [cpc EXCEPT ![c] = "client"]
    /\ UNCHANGED <<openai_api_key, ccall, creq, cnreq, clog, cout, wvars>>

\* the parameters are merged and the request is made (completion 146-156,
\* image 88-94)
send_request(c) ==
    /\ cpc[c] = "client"
    /\ LET block == Block(ccall[c].block) IN
       creq' = [creq EXCEPT ![c] =
                  acreate(block, ccall[c].prompt,
                          update(input_kwargs(block), ccall[c].overrides),
                          openai_api_key, openai_organization)]
    /\ cnreq' = [cnreq EXCEPT ![c] = @ + 1]
    /\ cpc' = [cpc EXCEPT ![c] = "waiting"]
    /\ UNCHANGED <<ccall, clog, cout, gvars, wvars>>

\* the request ends with o: the rest of submit_prompt
request_ends(c, o) ==
    /\ cpc[c] = "waiting"
    /\ LET sub == AfterAcreate(Block(ccall[c].block), o, "none") IN
       /\ clog' = [clog EXCEPT ![c] = @ + sub.logs]
       /\ cout' = [cout EXCEPT ![c] =
                     IF sub.raised # NoExc THEN [Raised(sub.raised) EXCEPT !.response = o]
                     ELSE ReturnedResponse(sub.returned)]
    /\ cpc' = [cpc EXCEPT ![c] = "done"]
    /\ UNCHANGED <<ccall, creq, cnreq, gvars, wvars>>

NextSubmit ==
    \/ \E c \in Callers, bn \in BlockNames, p \in CallerPrompts, ov \in Overrides :
          submit_prompt(c, bn, p, ov)
    \/ \E c \in Callers : get_client_api_key(c)
    \/ \E c \in Callers : get_client_organization(c)
    \/ \E c \in Callers : send_request(c)
    \/ \E c \in Callers, o \in CallerOutcomes : request_ends(c, o)

SpecSubmit == Init /\ [][NextSubmit]_vars


(***************************************************************************)
(* Properties                                                              *)
(***************************************************************************)
\* the call caught an exception and got as far as the rebuild of line 195:
\* the block was loaded, the request succeeded and the response was read
Interpreted == wpc = "done" /\ ctor # NoCall

\* the call caught an exception and the interpretation path failed before the
\* rebuild: the load failed, the request raised or the response was malformed
InterpretationFailed ==
    wpc = "done" /\ exc # NoExc /\ ctor = NoCall /\ \E i \in DOMAIN events : events[i] = "load"

\* the message line 191 builds from the caught exception and the response
ExpectedMessage ==
    StrOfArgs(exc.args) \o <<"\n", "OpenAI: ">> \o strip(response.choices[1])

EventSet == { events[i] : i \in DOMAIN events }

\* C1: when the caught exception's type has an inspectable constructor signature
\* and the interpretation succeeds, the exception that leaves the wrapper has
\* exactly that type.
C1_TypePreserved ==
    (Interpreted /\ ExcType(exc.type).signature = "ok")
        => (outcome.kind = "raise" /\ outcome.exc.type = exc.type)

\* C2: when the interpretation succeeds, the exception raised by the wrapper
\* (sync or async) has the caught exception itself as its cause.
C2_CauseIsOriginal ==
    Interpreted
        => /\ wrapper \in {"sync_wrapper", "async_wrapper"}
           /\ outcome.kind = "raise"
           /\ exc = fn_outcome.exc
           /\ outcome.exc.cause = exc.id

\* C3: the message of the exception raised by the wrapper is str(E), a newline,
\* "OpenAI: " and the stripped text of the first choice, and the prompt sent
\* was "Summarize: " + fence + str(E) + fence + ".".
C3_MessageAndPrompt ==
    Interpreted
        => /\ request.prompt =
                <<"Summarize: ", "<fence>">> \o StrOfArgs(exc.args) \o <<"<fence>", ".">>
           /\ outcome.exc.args # <<>>
           /\ outcome.exc.args[1] = ExpectedMessage

\* C4: the parameters submit_prompt sends are the block's defaults with the
\* caller's overrides on top: an overridden key carries the override's value, a
\* default key not overridden carries the block's value, override keys that are
\* no defaults are passed through, and nothing else is sent.
C4_DefaultsThenOverrides ==
    \A c \in Callers :
        cpc[c] \in {"waiting", "done"} =>
            LET block == Block(ccall[c].block)
                ov == ccall[c].overrides
                defaults == IF block.cls = "CompletionModel"
                            THEN CompletionFields ELSE ImageFields
                sent == creq[c].kwargs
            IN  /\ DOMAIN sent = defaults \cup DOMAIN ov
                /\ \A k \in DOMAIN ov : sent[k] = ov[k]
                /\ \A k \in defaults \ DOMAIN ov : sent[k] = block.config[k]
                /\ creq[c].prompt = ccall[c].prompt

\* a CompletionModel call that overrides a default (max_tokens), passes a key
\* that is no default (user) and keeps the other defaults
C4_Witness ==
    \E c \in Callers :
        /\ cpc[c] = "waiting"
        /\ Block(ccall[c].block).cls = "CompletionModel"
        /\ DOMAIN ccall[c].overrides = {"max_tokens", "user"}
        /\ creq[c].kwargs["max_tokens"] = "50"
        /\ creq[c].kwargs["model"] = "text-curie-001"

\* C5: decorating a Flow or a Task raises ValueError at decoration time: no
\* wrapper is made, the object is never called, no block is loaded and no
\* request is issued.
C5_UsageErrorAtDecoration ==
    fn \in {"Flow", "Task"}
        => /\ wpc = "usage_error"
           /\ wrapper = "none"
           /\ outcome.kind = "raise"
           /\ outcome.exc.type = "ValueError"
           /\ events = <<>>
           /\ completion_model = NoBlock
           /\ request = NoRequest

C5_Witness == fn = "Task" /\ wpc = "usage_error" /\ outcome.exc.type = "ValueError"

C7_OneRequestOneLine ==
    \A c \in Callers :
        cpc[c] = "done" =>
            /\ cnreq[c] = 1
            /\ cout[c].response.kind = "error"
                 => (cout[c].kind = "raise" /\ cout[c].exc.id = "api" /\ clog[c] = 0)
            /\ cout[c].response.kind = "ok"
                 => (cout[c].kind = "return" /\ clog[c] = 1)

\* C8: the request of every call carries the API key and the organization of
\* that call's own credentials block.
C8_OwnCredentials ==
    \A c \in Callers :
        cpc[c] \in {"waiting", "done"} =>
            LET own == Credentials(Block(ccall[c].block).openai_credentials) IN
            /\ creq[c].api_key = own.api_key
            /\ creq[c].organization = own.organization

\* C9: the block load and the request come only after the callable has raised;
\* a call whose callable returns loads nothing, requests nothing and returns the
\* callable's value; a call whose callable raises issues at most one request
\* and ends by raising.
C9_InterpretOnlyAfterFailure ==
    /\ \A i \in DOMAIN events :
          events[i] \in {"load", "request"}
              => \E j \in 1..(i - 1) : events[j] = "fn raised"
    /\ wpc = "running" => (completion_model = NoBlock /\ request = NoRequest)
    /\ (wpc = "done" /\ fn_outcome.kind = "return")
          => /\ outcome = fn_outcome
             /\ EventSet = {"fn called", "fn returned"}
             /\ completion_model = NoBlock
             /\ request = NoRequest
             /\ nlog = 0
    /\ (wpc = "done" /\ fn_outcome.kind = "raise")
          => /\ outcome.kind = "raise"
             /\ Cardinality({ i \in DOMAIN events : events[i] = "request" }) <= 1
             /\ Cardinality({ i \in DOMAIN events : events[i] = "load" }) <= 1

\* a call that raised, loaded the block, issued its one request and raised
C9_Witness ==
    /\ wpc = "done"
    /\ events = <<"fn called", "fn raised", "load", "request", "raise">>
    /\ outcome.kind = "raise"

\* what C10 says of the positional arguments and of the keyword values
C10_Positional ==
    /\ ctor.type = exc.type
    /\ Len(ctor.pos) = (IF Len(exc.args) = 0 THEN 1 ELSE Len(exc.args))
    /\ ctor.pos[1] = ExpectedMessage
    /\ \A i \in 2..Len(exc.args) : ctor.pos[i] = exc.args[i]
    /\ \A k \in DOMAIN ctor.kw :
          ctor.kw[k] = (IF k \in DOMAIN exc.attrs THEN exc.attrs[k] ELSE NoneV)

\* C10 as stated: the rebuild passes the new message, then E's positional
\* arguments from index 1 on, then one keyword argument per keyword-only
\* parameter of T's constructor, and nothing else.
C10_KwPerConstructorParam ==
    Interpreted
        => /\ C10_Positional
           /\ DOMAIN ctor.kw = ExcType(exc.type).kwonly

\* C10 amended: the keyword arguments are one per keyword-only parameter of
\* T's constructor when inspect.signature reports T's signature, and none when
\* it does not (a built-in type such as ImportError).
C10_KwPerInspectedParam ==
    Interpreted
        => /\ C10_Positional
           /\ DOMAIN ctor.kw = (IF ExcType(exc.type).signature = "ok"
                                THEN ExcType(exc.type).kwonly ELSE {})

\* an AppError with three positional arguments and a code is rebuilt
C10_Witness ==
    /\ Interpreted
    /\ exc.type = "AppError"
    /\ Len(exc.args) = 3
    /\ ctor.kw = [code |-> <<"a">>]
    /\ Len(ctor.pos) = 3


\* C11: whatever error the introspection of the caught exception's type
\* produces, it does not surface: a call that caught an exception whose type has
\* no inspectable signature went on to the block load with no keyword arguments.
C11_IntrospectionNeverSurfaces ==
    (wpc = "done" /\ exc # NoExc /\ ExcType(exc.type).signature # "ok")
        => /\ kwargs = NoKw
           /\ \E i \in DOMAIN events : events[i] = "load"

====
